---- MODULE Spec2Model ----
(***************************************************************************)
(* Model of the Spotify-Agent data collection layer:                       *)
(*   data_collection/lastfm_client.py   send_to_mcp, LastFMClient          *)
(*   data_collection/spotify_client.py  send_to_mcp, SpotifyClient         *)
(*   server.py                          the registered tool operations     *)
(* One call is in progress at a time (the program is single threaded and   *)
(* synchronous).  The vendor's answers and the collector's answers are the *)
(* inputs; they are drawn from small sets.                                 *)
(***************************************************************************)
EXTENDS Integers, Sequences, FiniteSets, TLC

\* ------------------------------------------------------------------ bounds
MaxLimit == 2        \* page sizes 1..MaxLimit are tried
MaxPagesArg == 2     \* max_pages is None or in 0..MaxPagesArg
MaxTracksArg == 2    \* max_tracks is None or in 0..MaxTracksArg
MaxOffset == 4       \* a fetch that max_pages does not bound is followed while it asks for items at offsets below this
MaxChunks == 2       \* track_ids has up to about MaxChunks * chunk_size ids

\* spotify_client.py:172
chunk_size == 100

\* Python's None and an optional value that is present.
None == <<>>
Some(x) == <<x>>
Val(o) == o[1]

Min(a, b) == IF a <= b THEN a ELSE b

VARIABLES
    FASTMCP_SERVER_URL,   \* "" when the environment variable is not set
    call,                 \* the operation in progress ("idle" when none)
    pc,                   \* position inside that operation
    run,                  \* 1: first call; 2: the same call made again
    prev,                 \* requests, result and POST count of the first call
    vendorLog,            \* the vendor's answers, one per request, in order
    requestLog,           \* the vendor requests issued by the current call
    forwarded,            \* the batches handed to send_to_mcp by the current call
    netCalls,             \* requests.post calls made by the current call
    sendRet,              \* value returned by the last send_to_mcp call
    response,             \* send_to_mcp called alone: what json.dumps / requests.post did ("none": not reached)
    result,               \* value returned to the caller
    error_on,             \* request number whose processing hit an except branch, 0 if none
    escaped,              \* TRUE when an exception left the operation
    user,                 \* get_recent_tracks: user (FALSE models None)
    limit,                \* get_recent_tracks: limit / get_saved_tracks: limit_per_req
    max_pages,            \* get_recent_tracks: max_pages
    max_tracks,           \* get_saved_tracks: max_tracks
    send_data_to_mcp,     \* the flag of the three fetch methods
    page,                 \* get_recent_tracks: page
    processed_pages,      \* get_recent_tracks: processed_pages
    offset,               \* get_saved_tracks: offset
    total_fetched,        \* total_fetched of either fetcher
    results,              \* the vendor answer being processed
    page_tracks,          \* page_tracks / batch_features
    tracks,               \* all_recent_tracks / saved_tracks / features_list
    track_ids,            \* get_audio_features: track_ids
    i,                    \* get_audio_features: loop index
    slept                 \* number of time.sleep(0.2) calls of the current call

cfgVars == <<FASTMCP_SERVER_URL>>
ctlVars == <<call, pc, run, prev>>
ioVars == <<vendorLog, requestLog, forwarded, netCalls, sendRet, response>>
outVars == <<result, error_on, escaped>>
argVars == <<user, limit, max_pages, max_tracks, send_data_to_mcp, track_ids>>
locVars == <<page, processed_pages, offset, total_fetched, results, page_tracks, tracks, i, slept>>
vars == <<cfgVars, ctlVars, ioVars, outVars, argVars, locVars>>

\* ------------------------------------------------------------ vendor data
\* A raw vendor item.  kind "ok": maps to a record; "notrack": a saved-track
\* item whose 'track' is empty; "bad": mapping it raises (a failing
\* get_album() call, a missing key, ...).
Item(id, kind) == [id |-> id, kind |-> kind]

\* The item sequences of length n whose ids continue after `base`.
PagesOfLen(base, n, kinds) ==
    { [j \in 1..n |-> Item(base + j, ks[j])] : ks \in [1..n -> kinds] }

Answer(status, items, next) == [status |-> status, items |-> items, next |-> next]

\* What user.get_recent_tracks(limit, page, ...) can answer: it raises, or it
\* returns a list of 0..limit items.
LastfmAnswers(p, lim) ==
    {Answer("raise", <<>>, FALSE)}
    \cup { Answer("ok", its, FALSE) :
             its \in UNION { PagesOfLen((p - 1) * lim, n, {"ok", "bad"}) : n \in 0..lim } }

\* What sp.current_user_saved_tracks(limit, offset) can answer: it raises, it
\* returns nothing / no items, or 1..limit items with or without a 'next' link.
SpotifyAnswers(off, lim) ==
    {Answer("raise", <<>>, FALSE), Answer("ok", <<>>, FALSE), Answer("ok", <<>>, TRUE)}
    \cup { Answer("ok", its, nx) :
             its \in UNION { PagesOfLen(off, n, {"ok", "notrack", "bad"}) : n \in 1..lim },
             nx \in BOOLEAN }

\* The k-th answer of the vendor: the recorded one when the call is a repeat
\* against the same vendor responses, a fresh one otherwise.
VendorAnswers(k, fresh) == IF k <= Len(vendorLog) THEN {vendorLog[k]} ELSE fresh
Recorded(k, a) == IF k <= Len(vendorLog) THEN vendorLog ELSE Append(vendorLog, a)

\* ------------------------------------------------------------ send_to_mcp
SendOutcomes ==
    {"2xx", "ConnectionError", "Timeout", "HTTPError", "RequestException", "EncodeError"}

\* What one send_to_mcp call gives: the returned value, the number of POSTs
\* made, whether the try block was reached, whether an exception left it.
Sent(ret, posts, tried) == [ret |-> ret, posts |-> posts, tried |-> tried, raised |-> FALSE]

\* send_to_mcp without its server_url test.
send_to_mcp_no_url_check(server_url, data, outcome) ==
    IF data = <<>> THEN Sent(TRUE, 0, FALSE)
    ELSE IF outcome = "EncodeError" THEN Sent(FALSE, 0, TRUE)
    ELSE IF outcome = "2xx" THEN Sent(TRUE, 1, TRUE)
    ELSE Sent(FALSE, 1, TRUE)

\* send_to_mcp without response.raise_for_status(): a non-2xx answer counts
\* as sent.
send_to_mcp_no_raise_for_status(server_url, data, outcome) ==
    IF server_url = "" THEN Sent(FALSE, 0, FALSE)
    ELSE IF data = <<>> THEN Sent(TRUE, 0, FALSE)
    ELSE IF outcome = "EncodeError" THEN Sent(FALSE, 0, TRUE)
    ELSE IF outcome \in {"2xx", "HTTPError"} THEN Sent(TRUE, 1, TRUE)
    ELSE Sent(FALSE, 1, TRUE)

\* send_to_mcp(endpoint, data, server_url).  outcome is what the try block
\* meets: json.dumps fails ("EncodeError", before any POST), or the one
\* requests.post call is answered 2xx, or it fails in one of the ways the
\* except branches name; every branch ends in `return False`.
send_to_mcp(server_url, data, outcome) ==
    IF server_url = "" THEN Sent(FALSE, 0, FALSE)
    ELSE IF data = <<>> THEN Sent(TRUE, 0, FALSE)
    ELSE IF outcome = "EncodeError" THEN Sent(FALSE, 0, TRUE)
    ELSE IF outcome = "2xx" THEN Sent(TRUE, 1, TRUE)
    ELSE Sent(FALSE, 1, TRUE)

\* The effect of one send_to_mcp call on the collector-side variables.
DoSend(data) ==
    \E outcome \in SendOutcomes :
        LET r == send_to_mcp(FASTMCP_SERVER_URL, data, outcome) IN
        /\ forwarded' = Append(forwarded, data)
        /\ netCalls' = netCalls + r.posts
        /\ sendRet' = r.ret
        /\ UNCHANGED response

\* The forward test that also skips a batch of one record.
ShouldForwardSkipsSingle(flag, batch) == flag /\ Len(batch) > 1

\* `if send_data_to_mcp and page_tracks:`
ShouldForward(flag, batch) == flag /\ batch # <<>>

\* Forward that gives up the fetch when send_to_mcp returns False.
ForwardChecked(batch, nextPc) ==
    /\ IF ShouldForward(send_data_to_mcp, batch)
         THEN DoSend(batch)
         ELSE UNCHANGED <<forwarded, netCalls, sendRet, response>>
    /\ pc' = IF ShouldForward(send_data_to_mcp, batch) /\ ~sendRet' THEN "return" ELSE nextPc

\* Forward that sends everything accumulated so far instead of the page.
ForwardAccumulated(batch, nextPc) ==
    /\ IF ShouldForward(send_data_to_mcp, batch)
         THEN DoSend(tracks)
         ELSE UNCHANGED <<forwarded, netCalls, sendRet, response>>
    /\ pc' = nextPc

\* `if send_data_to_mcp and page_tracks: send_to_mcp(endpoint, page_tracks)`:
\* the value send_to_mcp returns is dropped and the method goes on at nextPc.
Forward(batch, nextPc) ==
    /\ IF ShouldForward(send_data_to_mcp, batch)
         THEN DoSend(batch)
         ELSE UNCHANGED <<forwarded, netCalls, sendRet, response>>
    /\ pc' = nextPc

\* An except branch that logs and goes on with the loop instead of leaving it.
CaughtAndContinue(k) ==
    /\ error_on' = k
    /\ pc' = IF call = "get_recent_tracks" THEN "lf_loop" ELSE "sp_request"

\* The except branches of the two paginated fetchers: the error is logged with
\* the request it happened on, and `break` leaves the loop.
Caught(k) ==
    /\ error_on' = k
    /\ pc' = "return"

\* ----------------------------------------------------------- record mapper
PlayEvent(item) == [kind |-> "PlayEvent", id |-> item.id]
LibraryTrack(item) == [kind |-> "LibraryTrack", id |-> item.id]

\* The `for item in results:` loop of get_recent_tracks: every item is mapped
\* and appended until one raises.
RECURSIVE MapScrobbles(_, _)
MapScrobbles(items, acc) ==
    IF items = <<>> THEN [recs |-> acc, raised |-> FALSE]
    ELSE IF Head(items).kind = "bad" THEN [recs |-> acc, raised |-> TRUE]
    ELSE MapScrobbles(Tail(items), Append(acc, PlayEvent(Head(items))))

\* The `for item in items:` loop of get_saved_tracks: an item without a track
\* is skipped.
RECURSIVE MapSaved(_, _)
MapSaved(items, acc) ==
    IF items = <<>> THEN [recs |-> acc, raised |-> FALSE]
    ELSE IF Head(items).kind = "notrack" THEN MapSaved(Tail(items), acc)
    ELSE IF Head(items).kind = "bad" THEN [recs |-> acc, raised |-> TRUE]
    ELSE MapSaved(Tail(items), Append(acc, LibraryTrack(Head(items))))

\* ------------------------------------------------------------------- Init
Init ==
    /\ FASTMCP_SERVER_URL \in {"", "http://mcp"}
    /\ call = "idle"
    /\ pc = "idle"
    /\ run = 1
    /\ prev = [requests |-> <<>>, result |-> <<>>, netCalls |-> 0]
    /\ vendorLog = <<>>
    /\ requestLog = <<>>
    /\ forwarded = <<>>
    /\ netCalls = 0
    /\ sendRet = FALSE
    /\ response = "none"
    /\ result = <<>>
    /\ error_on = 0
    /\ escaped = FALSE
    /\ user = FALSE
    /\ limit = 1
    /\ max_pages = None
    /\ max_tracks = None
    /\ send_data_to_mcp = TRUE
    /\ track_ids = <<>>
    /\ page = 1
    /\ processed_pages = 0
    /\ offset = 0
    /\ total_fetched = 0
    /\ results = Answer("ok", <<>>, FALSE)
    /\ page_tracks = <<>>
    /\ tracks = <<>>
    /\ i = 0
    /\ slept = 0

\* The locals of a fetch method at entry.
FreshLocals ==
    /\ page' = 1
    /\ processed_pages' = 0
    /\ offset' = 0
    /\ total_fetched' = 0
    /\ results' = Answer("ok", <<>>, FALSE)
    /\ page_tracks' = <<>>
    /\ tracks' = <<>>
    /\ i' = 0
    /\ slept' = 0

\* ------------------------------------------------- send_to_mcp called alone
CallSendToMcp ==
    /\ call = "idle"
    /\ \E data \in {<<>>, <<PlayEvent(Item(1, "ok"))>>}, outcome \in SendOutcomes :
          LET r == send_to_mcp(FASTMCP_SERVER_URL, data, outcome) IN
          /\ forwarded' = Append(forwarded, data)
          /\ netCalls' = netCalls + r.posts
          /\ sendRet' = r.ret
          /\ response' = IF r.tried THEN outcome ELSE "none"
          /\ escaped' = r.raised
    /\ call' = "send_to_mcp"
    /\ pc' = "returned"
    /\ result' = <<>>
    /\ UNCHANGED <<cfgVars, run, prev, vendorLog, requestLog, error_on, argVars, locVars>>

\* --------------------------------------- LastFMClient.get_recent_tracks
\* The max_pages test with > for >=.
MaxPagesReachedOffByOne(mp, pp) == mp # None /\ pp > Val(mp)

\* `processed_pages >= max_pages` when max_pages is given.
MaxPagesReached(mp, pp) == mp # None /\ pp >= Val(mp)

\* The short page test, one off.
ShortPageOffByOne(batch, lim) == Len(batch) < lim - 1

\* `len(page_tracks) < limit`
ShortPage(batch, lim) == Len(batch) < lim

\* Entry: get_user(), then the locals.
LfCall ==
    /\ call = "idle"
    /\ \E u \in BOOLEAN, lim \in 1..MaxLimit, flag \in BOOLEAN,
          mp \in {None} \cup {Some(n) : n \in 0..MaxPagesArg} :
          /\ user' = u
          /\ limit' = lim
          /\ max_pages' = mp
          /\ send_data_to_mcp' = flag
          /\ pc' = IF u THEN "lf_loop" ELSE "returned"
    /\ call' = "get_recent_tracks"
    /\ result' = <<>>
    /\ UNCHANGED <<cfgVars, run, prev, ioVars, error_on, escaped, max_tracks, track_ids, locVars>>

\* Top of `while True:`: the max_pages check, then page_tracks = [].
LfLoop ==
    /\ call = "get_recent_tracks" /\ pc = "lf_loop"
    /\ IF MaxPagesReached(max_pages, processed_pages)
         THEN pc' = "return" /\ UNCHANGED page_tracks
         ELSE pc' = "lf_request" /\ page_tracks' = <<>>
    /\ UNCHANGED <<cfgVars, call, run, prev, ioVars, outVars, argVars,
                   page, processed_pages, offset, total_fetched, results, tracks, i, slept>>

\* user.get_recent_tracks(limit, page, ...) and the `if not results` test.
LfRequest ==
    /\ call = "get_recent_tracks" /\ pc = "lf_request"
    /\ max_pages # None \/ (page - 1) * limit < MaxOffset
    /\ LET k == Len(requestLog) + 1 IN
       \E a \in VendorAnswers(k, LastfmAnswers(page, limit)) :
          /\ vendorLog' = Recorded(k, a)
          /\ requestLog' = Append(requestLog, page)
          /\ results' = a
          /\ IF a.status = "raise"
               THEN Caught(k)
               ELSE /\ pc' = IF a.items = <<>> THEN "return" ELSE "lf_map"
                    /\ UNCHANGED error_on
    /\ UNCHANGED <<cfgVars, call, run, prev, forwarded, netCalls, sendRet, response, result, escaped,
                   argVars, page, processed_pages, offset, total_fetched, page_tracks, tracks, i, slept>>

\* The mapping loop over the page.
LfMap ==
    /\ call = "get_recent_tracks" /\ pc = "lf_map"
    /\ LET m == MapScrobbles(results.items, <<>>) IN
          /\ tracks' = tracks \o m.recs
          /\ page_tracks' = page_tracks \o m.recs
          /\ total_fetched' = total_fetched + Len(m.recs)
          /\ IF m.raised
               THEN Caught(Len(requestLog))
               ELSE pc' = "lf_forward" /\ UNCHANGED error_on
    /\ UNCHANGED <<cfgVars, call, run, prev, ioVars, result, escaped, argVars,
                   page, processed_pages, offset, results, i, slept>>

\* `if send_data_to_mcp and page_tracks: send_to_mcp(...)`
LfForward ==
    /\ call = "get_recent_tracks" /\ pc = "lf_forward"
    /\ Forward(page_tracks, "lf_advance")
    /\ UNCHANGED <<cfgVars, call, run, prev, vendorLog, requestLog, outVars, argVars, locVars>>

\* processed_pages += 1, the short page test, page += 1.
LfAdvance ==
    /\ call = "get_recent_tracks" /\ pc = "lf_advance"
    /\ processed_pages' = processed_pages + 1
    /\ IF ShortPage(page_tracks, limit)
         THEN pc' = "return" /\ UNCHANGED page
         ELSE pc' = "lf_sleep" /\ page' = page + 1
    /\ UNCHANGED <<cfgVars, call, run, prev, ioVars, outVars, argVars,
                   offset, total_fetched, results, page_tracks, tracks, i, slept>>

\* time.sleep(0.2), then back to the top of the loop.
LfSleep ==
    /\ call = "get_recent_tracks" /\ pc = "lf_sleep"
    /\ slept' = slept + 1
    /\ pc' = "lf_loop"
    /\ UNCHANGED <<cfgVars, call, run, prev, ioVars, outVars, argVars,
                   page, processed_pages, offset, total_fetched, results, page_tracks, tracks, i>>

\* `return all_recent_tracks` / `return saved_tracks` / `return features_list`
Return ==
    /\ pc = "return"
    /\ result' = tracks
    /\ pc' = "returned"
    /\ UNCHANGED <<cfgVars, call, run, prev, ioVars, error_on, escaped, argVars, locVars>>

\* ------------------------------------------ SpotifyClient.get_saved_tracks
\* The max_tracks test with > for >=.
MaxTracksReachedOffByOne(mt, tf) == mt # None /\ tf > Val(mt)

\* `total_fetched >= max_tracks` when max_tracks is given.
MaxTracksReached(mt, tf) == mt # None /\ tf >= Val(mt)

\* `if results.get('next'):`
HasNext(res) == res.next

\* Entry: self.sp is set on every constructed client; the locals.
SpCall ==
    /\ call = "idle"
    /\ \E lim \in 1..MaxLimit, flag \in BOOLEAN,
          mt \in {None} \cup {Some(n) : n \in 0..MaxTracksArg} :
          /\ limit' = lim
          /\ max_tracks' = mt
          /\ send_data_to_mcp' = flag
    /\ call' = "get_saved_tracks"
    /\ pc' = "sp_request"
    /\ result' = <<>>
    /\ UNCHANGED <<cfgVars, run, prev, ioVars, error_on, escaped, user, max_pages, track_ids, locVars>>

\* sp.current_user_saved_tracks(limit, offset) and the `not results.get('items')` test.
SpRequest ==
    /\ call = "get_saved_tracks" /\ pc = "sp_request"
    /\ offset < MaxOffset
    /\ LET k == Len(requestLog) + 1 IN
       \E a \in VendorAnswers(k, SpotifyAnswers(offset, limit)) :
          /\ vendorLog' = Recorded(k, a)
          /\ requestLog' = Append(requestLog, offset)
          /\ results' = a
          /\ page_tracks' = <<>>
          /\ IF a.status = "raise"
               THEN Caught(k)
               ELSE /\ pc' = IF a.items = <<>> THEN "return" ELSE "sp_map"
                    /\ UNCHANGED error_on
    /\ UNCHANGED <<cfgVars, call, run, prev, forwarded, netCalls, sendRet, response, result, escaped,
                   argVars, page, processed_pages, offset, total_fetched, tracks, i, slept>>

\* The mapping loop over the page.
SpMap ==
    /\ call = "get_saved_tracks" /\ pc = "sp_map"
    /\ LET m == MapSaved(results.items, <<>>) IN
          /\ tracks' = tracks \o m.recs
          /\ page_tracks' = page_tracks \o m.recs
          /\ total_fetched' = total_fetched + Len(m.recs)
          /\ IF m.raised
               THEN Caught(Len(requestLog))
               ELSE pc' = "sp_forward" /\ UNCHANGED error_on
    /\ UNCHANGED <<cfgVars, call, run, prev, ioVars, result, escaped, argVars,
                   page, processed_pages, offset, results, i, slept>>

\* `if send_data_to_mcp and page_tracks: send_to_mcp(...)`
SpForward ==
    /\ call = "get_saved_tracks" /\ pc = "sp_forward"
    /\ Forward(page_tracks, "sp_advance")
    /\ UNCHANGED <<cfgVars, call, run, prev, vendorLog, requestLog, outVars, argVars, locVars>>

\* The `next` test, offset += limit_per_req, the max_tracks test.
SpAdvance ==
    /\ call = "get_saved_tracks" /\ pc = "sp_advance"
    /\ IF HasNext(results)
         THEN /\ offset' = offset + limit
              /\ pc' = IF MaxTracksReached(max_tracks, total_fetched)
                         THEN "return" ELSE "sp_request"
         ELSE pc' = "return" /\ UNCHANGED offset
    /\ UNCHANGED <<cfgVars, call, run, prev, ioVars, outVars, argVars,
                   page, processed_pages, total_fetched, results, page_tracks, tracks, i, slept>>

\* ---------------------------------------- SpotifyClient.get_audio_features
\* A slice one id too long.
ChunkOverlapping(ids, from) == SubSeq(ids, from + 1, Min(from + chunk_size + 1, Len(ids)))

\* track_ids[i:i + chunk_size], i counted from 0.
Chunk(ids, from) == SubSeq(ids, from + 1, Min(from + chunk_size, Len(ids)))

\* [f for f in features if f is not None]
ValidFeatures(features) == SelectSeq(features, LAMBDA f : f.kind # "null")

\* The lengths of track_ids that are tried: around every chunk boundary.
IdCounts ==
    { n \in { c * chunk_size + d : c \in 0..MaxChunks, d \in {-1, 0, 1, 50} } :
        n >= 0 /\ n <= MaxChunks * chunk_size + 1 }

\* Which entries of an answer are null: none, all, or those of even ids.
NullMods == {0, 1, 2}

\* What sp.audio_features(tracks=chunk) can answer: it raises, it returns
\* None, or it returns one entry per id, some of them None.
FeatureAnswers(chunk) ==
    {Answer("raise", <<>>, FALSE), Answer("none", <<>>, FALSE)}
    \cup { Answer("ok",
                  [j \in 1..Len(chunk) |->
                      Item(chunk[j], IF m > 0 /\ chunk[j] % m = 0 THEN "null" ELSE "ok")],
                  FALSE) : m \in NullMods }

\* Entry: the `if not track_ids` test and the locals.
AfCall ==
    /\ call = "idle"
    /\ \E n \in IdCounts, flag \in BOOLEAN :
          /\ track_ids' = [j \in 1..n |-> j]
          /\ send_data_to_mcp' = flag
          /\ pc' = IF n = 0 THEN "returned" ELSE "af_loop"
    /\ call' = "get_audio_features"
    /\ result' = <<>>
    /\ UNCHANGED <<cfgVars, run, prev, ioVars, error_on, escaped, user, limit, max_pages,
                   max_tracks, locVars>>

\* One turn of `for i in range(0, len(track_ids), chunk_size):` up to the
\* extension of both lists; a failure is logged and the loop goes on.
AfRequest ==
    /\ call = "get_audio_features" /\ pc = "af_loop"
    /\ IF i >= Len(track_ids)
         THEN /\ pc' = "return"
              /\ UNCHANGED <<vendorLog, requestLog, results, page_tracks, tracks, error_on>>
         ELSE LET k == Len(requestLog) + 1
                  chunk == Chunk(track_ids, i) IN
              \E a \in VendorAnswers(k, FeatureAnswers(chunk)) :
                 /\ vendorLog' = Recorded(k, a)
                 /\ requestLog' = Append(requestLog, chunk)
                 /\ results' = a
                 /\ IF a.status = "ok"
                      THEN /\ page_tracks' = ValidFeatures(a.items)
                           /\ tracks' = tracks \o ValidFeatures(a.items)
                           /\ pc' = "af_forward"
                           /\ UNCHANGED error_on
                      ELSE /\ page_tracks' = <<>>
                           /\ error_on' = k
                           /\ pc' = "af_next"
                           /\ UNCHANGED tracks
    /\ UNCHANGED <<cfgVars, call, run, prev, forwarded, netCalls, sendRet, response, result, escaped,
                   argVars, page, processed_pages, offset, total_fetched, i, slept>>

\* `if send_data_to_mcp and batch_features: send_to_mcp(...)`
AfForward ==
    /\ call = "get_audio_features" /\ pc = "af_forward"
    /\ Forward(page_tracks, "af_next")
    /\ UNCHANGED <<cfgVars, call, run, prev, vendorLog, requestLog, outVars, argVars, locVars>>

\* The step of the range: i += chunk_size.
AfNext ==
    /\ call = "get_audio_features" /\ pc = "af_next"
    /\ i' = i + chunk_size
    /\ pc' = "af_loop"
    /\ UNCHANGED <<cfgVars, call, run, prev, ioVars, outVars, argVars,
                   page, processed_pages, offset, total_fetched, results, page_tracks, tracks, slept>>

\* ------------------------------------------------------- server.py tools
\* The methods class SpotifyClient defines.
SpotifyMethods == {"get_saved_tracks", "get_audio_features"}

\* tool |-> the facade method it calls
ToolMethod ==
    [get_spotify_user_profile |-> "get_user_profile",
     get_spotify_saved_tracks |-> "get_saved_tracks",
     get_spotify_track_audio_features |-> "get_track_audio_features",
     get_spotify_user_top_tracks |-> "get_user_top_tracks",
     get_spotify_user_top_artists |-> "get_user_top_artists",
     get_spotify_recently_played |-> "get_recently_played",
     search_spotify |-> "search",
     get_spotify_user_playlists |-> "get_user_playlists",
     get_spotify_playlist_tracks |-> "get_playlist_tracks",
     get_lastfm_recent_tracks |-> "get_recent_tracks"]

Tools == DOMAIN ToolMethod

TimeRanges == {"short_term", "medium_term", "long_term"}
ValidTypes == {"track", "artist", "album", "playlist", "show", "episode"}

\* The argument check of a tool: TRUE when it raises ValueError.
ToolRejects(tool, time_range, types) ==
    \/ tool \in {"get_spotify_user_top_tracks", "get_spotify_user_top_artists"}
       /\ time_range \notin TimeRanges
    \/ tool = "search_spotify" /\ \E j \in 1..Len(types) : types[j] \notin ValidTypes

\* The wrapped call `spotify_client.<method>(...)`: TRUE when it raises.  A
\* method the class does not define raises AttributeError; get_saved_tracks and
\* get_recent_tracks catch every exception themselves.
FacadeRaises(tool) ==
    /\ tool # "get_lastfm_recent_tracks"
    /\ ToolMethod[tool] \notin SpotifyMethods

\* The body of a tool has no try/except: an exception of the check or of the
\* wrapped call leaves the tool.
ToolRaises(tool, time_range, types) ==
    ToolRejects(tool, time_range, types) \/ FacadeRaises(tool)

\* One tool invocation, as far as whether it returns or raises.
ToolCall ==
    /\ call = "idle"
    /\ \E tool \in Tools, time_range \in TimeRanges \cup {"all_time"},
          types \in {<<"track">>, <<"track", "genre">>} :
          /\ call' = tool
          /\ escaped' = ToolRaises(tool, time_range, types)
    /\ pc' = "returned"
    /\ result' = <<>>
    /\ UNCHANGED <<cfgVars, run, prev, ioVars, error_on, argVars, locVars>>

\* ------------------------------------------------------- the constructors
Constructors == {"LastFMClient.__init__", "SpotifyClient.__init__"}

\* LastFMClient.get_user(): the user, or None (FALSE) when there is no network
\* object or network.get_user raises; the exception is logged, never raised.
get_user(networkOk, lookupOk) == networkOk /\ lookupOk

\* LastFMClient.__init__: pylast.LastFMNetwork(...) then self.get_user(), the
\* identity check, whose returned value is dropped.  Only an exception of
\* LastFMNetwork(...) reaches the except branches, which raise it again.
LastFMClientInit ==
    /\ call = "idle"
    /\ \E networkOk \in BOOLEAN, lookupOk \in BOOLEAN :
          /\ escaped' = ~networkOk
          /\ user' = get_user(networkOk, lookupOk)
          /\ vendorLog' = IF networkOk
                            THEN <<Answer(IF lookupOk THEN "ok" ELSE "raise", <<>>, FALSE)>>
                            ELSE <<>>
          /\ requestLog' = IF networkOk THEN <<0>> ELSE <<>>
    /\ call' = "LastFMClient.__init__"
    /\ pc' = "returned"
    /\ result' = <<>>
    /\ UNCHANGED <<cfgVars, run, prev, forwarded, netCalls, sendRet, response, error_on,
                   limit, max_pages, max_tracks, send_data_to_mcp, track_ids, locVars>>

\* SpotifyClient.__init__: SpotifyOAuth(...), spotipy.Spotify(...) and
\* self.sp.current_user(), the identity check; both except branches raise again.
SpotifyClientInit ==
    /\ call = "idle"
    /\ \E authOk \in BOOLEAN, identityOk \in BOOLEAN :
          /\ escaped' = ~(authOk /\ identityOk)
          /\ vendorLog' = IF authOk
                            THEN <<Answer(IF identityOk THEN "ok" ELSE "raise", <<>>, FALSE)>>
                            ELSE <<>>
          /\ requestLog' = IF authOk THEN <<0>> ELSE <<>>
    /\ call' = "SpotifyClient.__init__"
    /\ pc' = "returned"
    /\ result' = <<>>
    /\ UNCHANGED <<cfgVars, run, prev, forwarded, netCalls, sendRet, response, error_on,
                   argVars, locVars>>

\* ---------------------------------------------------- the same call again
FetchCalls == {"get_recent_tracks", "get_saved_tracks", "get_audio_features"}

\* Where a fetch method starts after its entry tests.
EntryPc(c) ==
    IF c = "get_recent_tracks" THEN (IF user THEN "lf_loop" ELSE "returned")
    ELSE IF c = "get_saved_tracks" THEN "sp_request"
    ELSE IF track_ids = <<>> THEN "returned" ELSE "af_loop"

\* The caller makes the same call once more; the vendor answers as before,
\* the collector (and whether one is configured) may differ.
CallAgain ==
    /\ call \in FetchCalls /\ pc = "returned" /\ run = 1
    /\ run' = 2
    /\ prev' = [requests |-> requestLog, result |-> result, netCalls |-> netCalls]
    /\ FASTMCP_SERVER_URL' \in {"", "http://mcp"}
    /\ requestLog' = <<>>
    /\ forwarded' = <<>>
    /\ netCalls' = 0
    /\ sendRet' = FALSE
    /\ response' = "none"
    /\ result' = <<>>
    /\ error_on' = 0
    /\ FreshLocals
    /\ pc' = EntryPc(call)
    /\ UNCHANGED <<call, vendorLog, escaped, argVars>>

Next ==
    \/ CallSendToMcp
    \/ ToolCall
    \/ LastFMClientInit
    \/ SpotifyClientInit
    \/ LfCall
    \/ LfLoop
    \/ LfRequest
    \/ LfMap
    \/ LfForward
    \/ LfAdvance
    \/ LfSleep
    \/ SpCall
    \/ SpRequest
    \/ SpMap
    \/ SpForward
    \/ SpAdvance
    \/ AfCall
    \/ AfRequest
    \/ AfForward
    \/ AfNext
    \/ Return
    \/ CallAgain

Spec == Init /\ [][Next]_vars

\* The two paginated fetchers alone, run to completion: the program is a
\* single synchronous thread, so a call that can take a step takes it.
NextPaginated ==
    \/ LfCall
    \/ LfLoop
    \/ LfRequest
    \/ LfMap
    \/ LfForward
    \/ LfAdvance
    \/ LfSleep
    \/ SpCall
    \/ SpRequest
    \/ SpMap
    \/ SpForward
    \/ SpAdvance
    \/ Return

FairSpec == Init /\ [][NextPaginated]_vars /\ WF_vars(NextPaginated)

\* ============================================================== properties
Paginated == {"get_recent_tracks", "get_saved_tracks"}

\* The records one vendor answer maps to (up to the item that fails to map).
PageRecs(c, a) ==
    IF c = "get_recent_tracks" THEN MapScrobbles(a.items, <<>>).recs
    ELSE MapSaved(a.items, <<>>).recs

\* TRUE when mapping the answer's items raises.
PageRaises(c, a) ==
    IF c = "get_recent_tracks" THEN MapScrobbles(a.items, <<>>).raised
    ELSE MapSaved(a.items, <<>>).raised

\* The records of the first k answers, in order.
RECURSIVE ConcatPages(_, _, _)
ConcatPages(c, log, k) ==
    IF k = 0 THEN <<>> ELSE ConcatPages(c, log, k - 1) \o PageRecs(c, log[k])

\* The non-empty batches of the first k answers, in order; with onlyMapped,
\* those of the answers whose items were all mapped.
RECURSIVE Batches(_, _, _, _)
Batches(c, log, k, onlyMapped) ==
    IF k = 0 THEN <<>>
    ELSE IF (onlyMapped => ~PageRaises(c, log[k])) /\ PageRecs(c, log[k]) # <<>>
        THEN Append(Batches(c, log, k - 1, onlyMapped), PageRecs(c, log[k]))
        ELSE Batches(c, log, k - 1, onlyMapped)

\* The non-null entries of the first k feature answers, in order.
RECURSIVE ConcatFeatures(_, _)
ConcatFeatures(log, k) ==
    IF k = 0 THEN <<>>
    ELSE ConcatFeatures(log, k - 1)
         \o (IF log[k].status = "ok"
               THEN SelectSeq(log[k].items, LAMBDA f : f.kind = "ok") ELSE <<>>)

\* At most lim - 1 items, at least one.
IsShort(a, lim) == a.status = "ok" /\ Len(a.items) >= 1 /\ Len(a.items) < lim

\* ---- C1: get_recent_tracks with max_pages set never issues more than
\* max_pages page requests, and is never about to issue a request when
\* max_pages requests have been made (the test precedes every request).
C1_RequestsWithinMaxPages ==
    (call = "get_recent_tracks" /\ max_pages # None) =>
        /\ Len(requestLog) <= Val(max_pages)
        /\ pc = "lf_request" => Len(requestLog) < Val(max_pages)

C1_Witness ==
    /\ call = "get_recent_tracks" /\ pc = "returned"
    /\ max_pages = Some(2) /\ processed_pages = 2
    /\ Len(requestLog) = 2 /\ Len(page_tracks) = limit

\* ---- C2: get_saved_tracks with max_tracks set never returns more than
\* max_tracks records.
C2_ReturnedWithinMaxTracks ==
    (call = "get_saved_tracks" /\ pc = "returned" /\ max_tracks # None) =>
        Len(result) <= Val(max_tracks)

\* ---- C3 (as claimed): when processing of page k raises, the fetch raises
\* nothing, issues no further request and returns exactly the records of pages
\* 1..k-1.
C3_ErrorReturnsEarlierPagesOnly ==
    (call \in Paginated /\ pc = "returned" /\ error_on > 0) =>
        /\ ~escaped
        /\ Len(requestLog) = error_on
        /\ result = ConcatPages(call, vendorLog, error_on - 1)

\* ---- C3 (amended): when processing of page k raises, the fetch raises
\* nothing, issues no further request and returns the records of pages 1..k-1
\* followed by the records of page k mapped before the failure; these are none
\* when it is the page request itself that raised.
C3_ErrorReturnsWhatWasMapped ==
    (call \in Paginated /\ error_on > 0) =>
        /\ ~escaped
        /\ pc \in {"return", "returned"}
        /\ Len(requestLog) = error_on
        /\ pc = "returned" =>
              /\ result = ConcatPages(call, vendorLog, error_on - 1)
                            \o PageRecs(call, vendorLog[error_on])
              /\ vendorLog[error_on].status = "raise" =>
                    result = ConcatPages(call, vendorLog, error_on - 1)

C3_Witness ==
    /\ call = "get_saved_tracks" /\ pc = "returned" /\ error_on = 2
    /\ vendorLog[2].status = "ok"
    /\ Len(result) = Len(ConcatPages(call, vendorLog, 1)) + 1
    /\ Len(ConcatPages(call, vendorLog, 1)) >= 1

\* ---- C4: send_to_mcp with an empty record list returns true and makes no
\* network call, whether or not a destination is configured.
C4_EmptySendIsTrue ==
    (call = "send_to_mcp" /\ pc = "returned" /\ forwarded[1] = <<>>) =>
        sendRet = TRUE /\ netCalls = 0

C6_ToolsNeverRaise == call \in Tools => ~escaped

C8_ChunkedFeatures ==
    (call = "get_audio_features" /\ pc = "returned" /\ track_ids # <<>>) =>
        LET n == Len(track_ids) IN
        /\ Len(requestLog) = (n + chunk_size - 1) \div chunk_size
        /\ \A k \in 1..Len(requestLog) :
              /\ Len(requestLog[k]) <= chunk_size
              /\ requestLog[k] = [j \in 1..Min(chunk_size, n - (k - 1) * chunk_size) |->
                                     track_ids[(k - 1) * chunk_size + j]]
        /\ result = ConcatFeatures(vendorLog, Len(requestLog))
        /\ \A j \in 1..Len(result) : result[j].kind # "null"

C8_Witness ==
    /\ call = "get_audio_features" /\ pc = "returned"
    /\ Len(track_ids) = 150 /\ Len(requestLog) = 2
    /\ vendorLog[1].status = "ok" /\ vendorLog[2].status = "raise"
    /\ Len(result) = 50

\* ---- C9: a fetch made again against the same vendor answers, with other
\* results of its send_to_mcp calls (or no destination), issues the same
\* vendor requests and returns the same sequence.
C9_ForwardingDoesNotInfluenceFetch ==
    (run = 2 /\ pc = "returned") =>
        /\ requestLog = prev.requests
        /\ result = prev.result

C9_Witness ==
    /\ run = 2 /\ pc = "returned" /\ call = "get_saved_tracks"
    /\ send_data_to_mcp /\ Len(forwarded) = 2
    /\ prev.netCalls = 2 /\ netCalls = 0
    /\ Len(result) >= 2

\* ---- C10 (as claimed): with forwarding on, every fetched page that yields at
\* least one record is handed to send_to_mcp exactly once, alone, before the
\* next page is requested.
C10_EveryPageForwarded ==
    (call \in Paginated /\ send_data_to_mcp
       /\ pc \in {"lf_request", "sp_request", "return", "returned"}) =>
        forwarded = Batches(call, vendorLog, Len(requestLog), FALSE)

\* ---- C10 (amended): with forwarding on, every fetched page whose items were
\* all mapped without an error and that yields at least one record is handed
\* to send_to_mcp exactly once, alone, before the next page is requested; a
\* page whose mapping raised is not forwarded at all.
C10_EveryMappedPageForwarded ==
    (call \in Paginated /\ send_data_to_mcp
       /\ pc \in {"lf_request", "sp_request", "return", "returned"}) =>
        forwarded = Batches(call, vendorLog, Len(requestLog), TRUE)

C10_Witness ==
    /\ call = "get_recent_tracks" /\ pc = "returned" /\ send_data_to_mcp
    /\ limit = 2 /\ max_pages = Some(2)
    /\ Len(requestLog) = 2 /\ Len(forwarded) = 2 /\ Len(result) = 4
    /\ FASTMCP_SERVER_URL # "" /\ netCalls = 2

\* ---- C11: a facade constructor raises whenever its identity check against
\* the vendor is rejected, so no object is obtained from it.
C11_RejectedIdentityRaises ==
    (call \in Constructors /\ pc = "returned"
       /\ vendorLog # <<>> /\ vendorLog[1].status = "raise") => escaped

C13_PauseBetweenRequests ==
    call \in Paginated => slept >= Len(requestLog) - 1

\* ---- C14 (as claimed), in the form a finite run refutes.  The vendor is free
\* to repeat any answer, so a cap ends the fetch after finitely many requests
\* whatever the vendor answers only if every page that is followed by another
\* request has moved the capped counter: processed_pages in get_recent_tracks,
\* total_fetched in get_saved_tracks.
C14_EveryFollowedPageCounts ==
    /\ (call = "get_recent_tracks" /\ max_pages # None /\ pc = "lf_request") =>
          processed_pages = Len(requestLog)
    /\ (call = "get_saved_tracks" /\ max_tracks # None /\ pc = "sp_request"
           /\ requestLog # <<>>) =>
          PageRecs(call, vendorLog[Len(requestLog)]) # <<>>

\* ---- C14 (amended): get_recent_tracks with max_pages set always returns,
\* whatever the vendor answers.  get_saved_tracks with max_tracks set asks for
\* a further page only while fewer than max_tracks records were mapped, so it
\* returns once the followed pages have yielded max_tracks records; a page
\* with a next link whose items carry no track does not count, and against a
\* vendor that keeps answering such pages the fetch does not return.
C14_CappedFetchTerminates ==
    /\ (call = "get_recent_tracks" /\ max_pages # None) ~> (pc = "returned")
    /\ []((call = "get_saved_tracks" /\ max_tracks # None /\ pc = "sp_request"
             /\ requestLog # <<>>) =>
            /\ total_fetched < Val(max_tracks)
            /\ total_fetched = Len(ConcatPages(call, vendorLog, Len(requestLog))))

C14_Witness ==
    /\ call = "get_saved_tracks" /\ pc = "returned" /\ max_tracks = Some(2)
    /\ Len(requestLog) = 3 /\ HasNext(results) /\ error_on = 0
    /\ total_fetched = 2 /\ PageRecs(call, vendorLog[2]) = <<>>

\* The batches, one after the other.
RECURSIVE Flatten(_)
Flatten(batches) ==
    IF batches = <<>> THEN <<>> ELSE Head(batches) \o Flatten(Tail(batches))

\* ---- C15 (as claimed): when a fetch with forwarding on returns, the returned
\* sequence is the in-order concatenation of the batches handed to
\* send_to_mcp, also when the fetch stopped early on an error.
C15_ResultIsWhatWasForwarded ==
    (call \in Paginated /\ pc = "returned" /\ send_data_to_mcp) =>
        result = Flatten(forwarded)

\* ---- C15 (amended): when a fetch with forwarding on returns, the returned
\* sequence is the in-order concatenation of the batches handed to
\* send_to_mcp, followed, when the fetch stopped because mapping an item
\* raised, by the records of that page mapped before the failure, which were
\* never forwarded.  A fetch that stopped on a failed page request, or without
\* an error, returns exactly what was forwarded.
C15_ResultIsForwardedPlusFailedPage ==
    (call \in Paginated /\ pc = "returned" /\ send_data_to_mcp) =>
        /\ result = Flatten(forwarded)
                       \o (IF error_on > 0 THEN PageRecs(call, vendorLog[error_on]) ELSE <<>>)
        /\ (error_on = 0 \/ vendorLog[error_on].status = "raise") =>
              result = Flatten(forwarded)

C15_Witness ==
    /\ call = "get_recent_tracks" /\ pc = "returned" /\ send_data_to_mcp
    /\ error_on = 3 /\ vendorLog[3].status = "raise"
    /\ Len(forwarded) = 2 /\ Len(result) = 2

====
